---- MODULE Spec2Model ----
(***************************************************************************)
(* Dev Journal (package journal): the entry model (models.py), the JSON    *)
(* store (db.py) and the commands add, edit, delete, display, search,      *)
(* stats and populate (cli.py); and the search of the one-file variant     *)
(* (main.py).                                                              *)
(*                                                                         *)
(* A Python str is a sequence of one-character strings, so that len,       *)
(* slicing, lower, split and strip are computed as Python computes them.   *)
(* An entry id is such a str of decimal digits.  The backing file is the   *)
(* JSON document it holds (or no document at all).  Every command is one   *)
(* step; op, before, result and mem record the last command, the file it   *)
(* found, how it ended and the collection it held, so that a statement     *)
(* about a command is a predicate of the state it leaves.                  *)
(***************************************************************************)
EXTENDS Naturals, Sequences, FiniteSets

\* ------------------------------------------------------------ constants
TITLE_LENGTH == 30
CONTENT_LENGTH == 70
MAX_ID == 99999
FIRST_ID == <<"1">>
MAX_ITEMS == 50

\* ------------------------------------------------------------ bounds
\* No command of a run assigns an id above IdCap.
IdCap == 2
\* Largest num_items below the ceiling that populate is run with.
MaxPopulate == 2
\* Longest collection, and longest JSON array, that a function is applied to
\* on its own.
MaxLen == 2

\* ------------------------------------------------------------ str
Rep(c, n) == [i \in 1..n |-> c]

Min(a, b) == IF a < b THEN a ELSE b

\* s[:n]
Prefix(s, n) == SubSeq(s, 1, Min(n, Len(s)))

LowerChar(c) ==
  CASE c = "A" -> "a"
    [] c = "B" -> "b"
    [] c = "C" -> "c"
    [] c = "P" -> "p"
    [] c = "Q" -> "q"
    [] c = "T" -> "t"
    [] c = "X" -> "x"
    [] OTHER -> c

\* str.lower
lower(s) == [i \in 1..Len(s) |-> LowerChar(s[i])]

\* sub in s
Contains(sub, s) ==
  /\ Len(sub) <= Len(s)
  /\ \E i \in 0..(Len(s) - Len(sub)) : SubSeq(s, i + 1, i + Len(sub)) = sub

IsSpace(c) == c = " "

RECURSIVE lstrip(_)
lstrip(s) ==
  IF Len(s) > 0 /\ IsSpace(Head(s)) THEN lstrip(Tail(s)) ELSE s

RECURSIVE rstrip(_)
rstrip(s) ==
  IF Len(s) > 0 /\ IsSpace(s[Len(s)]) THEN rstrip(SubSeq(s, 1, Len(s) - 1)) ELSE s

\* str.strip
strip(s) == rstrip(lstrip(s))

RECURSIVE SplitFrom(_, _, _, _)
SplitFrom(s, sep, i, cur) ==
  IF i > Len(s) THEN <<cur>>
  ELSE IF s[i] = sep THEN <<cur>> \o SplitFrom(s, sep, i + 1, <<>>)
  ELSE SplitFrom(s, sep, i + 1, Append(cur, s[i]))

\* str.split(sep) with an explicit one-character separator
split(s, sep) == SplitFrom(s, sep, 1, <<>>)

\* The pieces that are not the empty str, in order.
RECURSIVE DropEmpty(_)
DropEmpty(seq) ==
  IF seq = <<>> THEN <<>>
  ELSE IF Len(Head(seq)) > 0 THEN <<Head(seq)>> \o DropEmpty(Tail(seq))
  ELSE DropEmpty(Tail(seq))

\* [tag.strip() for tag in tags.split(sep) if tag.strip()]
ParseTags(tags, sep) ==
  LET pieces == split(tags, sep)
  IN DropEmpty([i \in 1..Len(pieces) |-> strip(pieces[i])])

\* ------------------------------------------------------------ decimal ids
DigitChars == <<"0", "1", "2", "3", "4", "5", "6", "7", "8", "9">>

DigitOf(c) == (CHOOSE k \in 1..10 : DigitChars[k] = c) - 1

IsDigits(s) ==
  /\ Len(s) > 0
  /\ \A i \in 1..Len(s) : \E k \in 1..10 : DigitChars[k] = s[i]

\* int(s) of a str of decimal digits
RECURSIVE int(_)
int(s) ==
  IF Len(s) = 0 THEN 0
  ELSE 10 * int(SubSeq(s, 1, Len(s) - 1)) + DigitOf(s[Len(s)])

\* f"{n}"
RECURSIVE str(_)
str(n) ==
  IF n < 10 THEN <<DigitChars[n + 1]>>
  ELSE Append(str(n \div 10), DigitChars[(n % 10) + 1])

\* ------------------------------------------------------------ timestamps
\* A datetime (iso = FALSE) or the str isoformat made of it (iso = TRUE).
Datetime(sec, usec) == [iso |-> FALSE, sec |-> sec, usec |-> usec]

\* timestamp.isoformat(timespec="seconds")
isoformat(ts) == [iso |-> TRUE, sec |-> ts.sec, usec |-> 0]

\* ------------------------------------------------------------ models.py
\* The dataclass constructor with __post_init__.
JournalEntry(id, title, content, timestamp, tags) ==
  [id |-> id,
   title |-> IF Len(title) > TITLE_LENGTH THEN Prefix(title, TITLE_LENGTH) ELSE title,
   content |-> IF Len(content) > CONTENT_LENGTH THEN Prefix(content, CONTENT_LENGTH)
               ELSE content,
   timestamp |-> timestamp,
   tags |-> tags]

NoEntry == [id |-> <<>>, title |-> <<>>, content |-> <<>>,
            timestamp |-> Datetime(0, 0), tags |-> <<>>]

RECURSIVE MaxOf(_)
MaxOf(S) ==
  LET x == CHOOSE y \in S : TRUE
  IN IF S = {x} THEN x
     ELSE LET m == MaxOf(S \ {x}) IN IF x > m THEN x ELSE m

\* next_entry_id without the "+ 1".
next_entry_id_same(existing_entries) ==
  IF existing_entries = <<>> THEN [exc |-> "none", id |-> FIRST_ID]
  ELSE LET max_id == MaxOf({int(existing_entries[i].id) : i \in 1..Len(existing_entries)})
       IN IF max_id >= MAX_ID
          THEN [exc |-> "MaximumNumberOfEntries", id |-> <<>>]
          ELSE [exc |-> "none", id |-> str(max_id)]

\* next_entry_id taking the last entry's id for the largest.
next_entry_id_last(existing_entries) ==
  IF existing_entries = <<>> THEN [exc |-> "none", id |-> FIRST_ID]
  ELSE LET max_id == int(existing_entries[Len(existing_entries)].id)
       IN IF max_id >= MAX_ID
          THEN [exc |-> "MaximumNumberOfEntries", id |-> <<>>]
          ELSE [exc |-> "none", id |-> str(max_id + 1)]

\* [exc, id]: the id returned, or the exception raised.
next_entry_id(existing_entries) ==
  IF existing_entries = <<>> THEN [exc |-> "none", id |-> FIRST_ID]
  ELSE LET max_id == MaxOf({int(existing_entries[i].id) : i \in 1..Len(existing_entries)})
       IN IF max_id >= MAX_ID
          THEN [exc |-> "MaximumNumberOfEntries", id |-> <<>>]
          ELSE [exc |-> "none", id |-> str(max_id + 1)]

\* The title check without lower().
TitleTakenExact(title, existing_entries) ==
  \E i \in 1..Len(existing_entries) : existing_entries[i].title = title

\* any(entry.title.lower() == title.lower() for entry in existing_entries)
TitleTaken(title, existing_entries) ==
  \E i \in 1..Len(existing_entries) :
    lower(existing_entries[i].title) = lower(title)

\* JournalEntry.create: [exc, stdout, entry]
create(title, content, existing_entries, now) ==
  IF TitleTaken(title, existing_entries)
  THEN [exc |-> "Exit", stdout |-> <<"An entry with this title already exists.">>,
        entry |-> NoEntry]
  ELSE LET nid == next_entry_id(existing_entries)
       IN IF nid.exc # "none"
          THEN [exc |-> nid.exc, stdout |-> <<>>, entry |-> NoEntry]
          ELSE [exc |-> "none", stdout |-> <<>>,
                entry |-> JournalEntry(nid.id, title, content, now, <<>>)]

\* ------------------------------------------------------------ db.py
\* The backing file: kind says what it holds ("absent": no file; "empty": no
\* bytes; "invalid": bytes that are no JSON document; else the JSON document's
\* type), items the elements of a JSON array.  An element is a JSON object
\* (obj) with the keys it has, or some other JSON value.
Fields == {"id", "title", "content", "timestamp", "tags"}

File(kind, items) == [kind |-> kind, items |-> items]

\* dataclasses.asdict
asdict(entry) ==
  [obj |-> TRUE, keys |-> Fields, id |-> entry.id, title |-> entry.title,
   content |-> entry.content, timestamp |-> entry.timestamp, tags |-> entry.tags]

\* JournalDatabase.__init__: db_file.touch()
JournalDatabase(f) == IF f.kind = "absent" THEN File("empty", <<>>) ELSE f

\* json.dump raises TypeError on a datetime.
Serializable(entries) == \A i \in 1..Len(entries) : entries[i].timestamp.iso

\* JournalDatabase.save, for entries json can serialize
save(entries) == File("array", [i \in 1..Len(entries) |-> asdict(entries[i])])

\* JournalEntry(**entry) raises TypeError: entry is no mapping, has an unknown
\* key, or lacks a field that has no default.
BadRecord(item) ==
  \/ ~item.obj
  \/ ~(item.keys \subseteq Fields)
  \/ ~({"id", "title", "content"} \subseteq item.keys)

\* JournalEntry(**entry)
FromRecord(item, now) ==
  JournalEntry(item.id, item.title, item.content,
               IF "timestamp" \in item.keys THEN item.timestamp ELSE now,
               IF "tags" \in item.keys THEN item.tags ELSE <<>>)

\* JournalDatabase.load_entries: [exc, entries]
load_entries(f, now) ==
  CASE f.kind = "absent" -> [exc |-> "FileNotFoundError", entries |-> <<>>]
    [] f.kind \in {"empty", "invalid"} -> [exc |-> "none", entries |-> <<>>]
    [] f.kind \in {"empty_object", "empty_string"} -> [exc |-> "none", entries |-> <<>>]
    [] f.kind = "array" ->
         IF \E i \in 1..Len(f.items) : BadRecord(f.items[i])
         THEN [exc |-> "TypeError", entries |-> <<>>]
         ELSE [exc |-> "none",
               entries |-> [i \in 1..Len(f.items) |-> FromRecord(f.items[i], now)]]
    [] OTHER -> [exc |-> "TypeError", entries |-> <<>>]

\* The outcome of a command: what it printed, the exception that ended it
\* ("none": it returned), the file it left, and the collection
\* it held in memory when it ended.
Outcome(stdout, exc, f, entries) ==
  [stdout |-> stdout, exc |-> exc, file |-> f, entries |-> entries]

\* session with save() in a finally clause.
session_finally(f, b) ==
  IF ~Serializable(b.entries)
  THEN Outcome(b.stdout, "TypeError", File("invalid", <<>>), b.entries)
  ELSE Outcome(b.stdout, b.exc, save(b.entries), b.entries)

\* JournalDatabase.session around a body that ended as b = [exc, stdout,
\* entries]: save() runs only when the body returns.
session(f, b) ==
  IF b.exc # "none" THEN Outcome(b.stdout, b.exc, f, b.entries)
  ELSE IF ~Serializable(b.entries)
  THEN Outcome(b.stdout, "TypeError", File("invalid", <<>>), b.entries)
  ELSE Outcome(b.stdout, "none", save(b.entries), b.entries)

\* load_entries raised on entering the session: the body never ran.
LoadFailed(f, ld) == Outcome(<<>>, ld.exc, f, <<>>)

\* ------------------------------------------------------------ cli.py
add_body(journal_entries, title, content, tags, now) ==
  LET c == create(title, content, journal_entries, now)
  IN IF c.exc # "none"
     THEN [exc |-> c.exc, stdout |-> c.stdout, entries |-> journal_entries]
     ELSE LET new_journal_entry ==
                [c.entry EXCEPT !.timestamp = isoformat(c.entry.timestamp),
                                !.tags = ParseTags(tags, ",")]
          IN [exc |-> "none", stdout |-> <<"Entry saved.">>,
              entries |-> Append(journal_entries, new_journal_entry)]

add_cmd(f, title, content, tags, now) ==
  LET db == JournalDatabase(f)
      ld == load_entries(db, now)
  IN IF ld.exc # "none" THEN LoadFailed(db, ld)
     ELSE session(db, add_body(ld.entries, title, content, tags, now))

IdPresent(entry_id, journal_entries) ==
  \E i \in 1..Len(journal_entries) : entry_id = journal_entries[i].id

FirstWithId(entry_id, journal_entries) ==
  CHOOSE i \in 1..Len(journal_entries) :
    /\ journal_entries[i].id = entry_id
    /\ \A j \in 1..(i - 1) : journal_entries[j].id # entry_id

edit_body(journal_entries, entry_id, new_content) ==
  IF ~IdPresent(entry_id, journal_entries)
  THEN [exc |-> "Exit", stdout |-> <<"No entry was found with this ID">>,
        entries |-> journal_entries]
  ELSE LET i == FirstWithId(entry_id, journal_entries)
       IN [exc |-> "none", stdout |-> <<"New content saved:  ", "{new_content}">>,
           entries |-> [journal_entries EXCEPT ![i].content = new_content]]

edit_cmd(f, entry_id, new_content, now) ==
  LET db == JournalDatabase(f)
      ld == load_entries(db, now)
  IN IF ld.exc # "none" THEN LoadFailed(db, ld)
     ELSE session(db, edit_body(ld.entries, entry_id, new_content))

\* list.remove(x): drops the first element equal to x
remove(seq, x) ==
  LET k == CHOOSE i \in 1..Len(seq) : seq[i] = x /\ \A j \in 1..(i - 1) : seq[j] # x
  IN SubSeq(seq, 1, k - 1) \o SubSeq(seq, k + 1, Len(seq))

delete_body(journal_entries, entry_id) ==
  IF ~IdPresent(entry_id, journal_entries)
  THEN [exc |-> "Exit", stdout |-> <<"No entry was found with this ID">>,
        entries |-> journal_entries]
  ELSE LET entry == journal_entries[FirstWithId(entry_id, journal_entries)]
       IN [exc |-> "none", stdout |-> <<"Entry removed.">>,
           entries |-> remove(journal_entries, entry)]

delete_cmd(f, entry_id, now) ==
  LET db == JournalDatabase(f)
      ld == load_entries(db, now)
  IN IF ld.exc # "none" THEN LoadFailed(db, ld)
     ELSE session(db, delete_body(ld.entries, entry_id))

\* The while loop of populate from counter on, fed by the fake-data generator's
\* next candidates gen = <<[title, content, tags, now], ...>>: [exc, stdout,
\* entries, counter].
RECURSIVE populate_loop(_, _, _, _, _)
populate_loop(journal_entries, gen, counter, num_items, stdout) ==
  IF ~(counter < num_items) \/ gen = <<>>
  THEN [exc |-> "none", stdout |-> stdout, entries |-> journal_entries,
        counter |-> counter]
  ELSE LET g == Head(gen)
           c == create(g.title, g.content, journal_entries, g.now)
       IN IF c.exc = "EntryAlreadyExists"
          THEN populate_loop(journal_entries, Tail(gen), counter, num_items,
                             Append(stdout, "Entry already exists. Skipping..."))
          ELSE IF c.exc # "none"
          THEN [exc |-> c.exc, stdout |-> stdout \o c.stdout,
                entries |-> journal_entries, counter |-> counter]
          ELSE LET new_journal_entry ==
                     [c.entry EXCEPT !.timestamp = isoformat(c.entry.timestamp),
                                     !.tags = ParseTags(g.tags, " ")]
                   warn == (IF Len(g.title) > TITLE_LENGTH
                            THEN <<"Title exceeded and was truncated">> ELSE <<>>)
                           \o (IF Len(g.content) > CONTENT_LENGTH
                               THEN <<"Content exceeded and was truncated">> ELSE <<>>)
               IN populate_loop(Append(journal_entries, new_journal_entry), Tail(gen),
                                counter + 1, num_items, stdout \o warn)

populate_body(journal_entries, num_items, gen) ==
  LET l == populate_loop(journal_entries, gen, 0, num_items, <<>>)
  IN IF l.exc # "none" THEN [exc |-> l.exc, stdout |-> l.stdout, entries |-> l.entries]
     ELSE [exc |-> "none",
           stdout |-> Append(l.stdout,
                             IF l.counter # num_items
                             THEN "Journal populated (some duplicates were skipped)"
                             ELSE "Journal populated"),
           entries |-> l.entries]

\* populate without the check of num_items against MAX_ITEMS.
populate_cmd_no_ceiling(f, num_items, gen, now) ==
  LET db == JournalDatabase(f)
      ld == load_entries(db, now)
  IN IF ld.exc # "none" THEN LoadFailed(db, ld)
     ELSE session(db, populate_body(ld.entries, num_items, gen))

populate_cmd(f, num_items, gen, now) ==
  IF num_items > MAX_ITEMS
  THEN Outcome(<<"Please, choose a number of items not greater than MAX_ITEMS.">>,
               "Exit", f, <<>>)
  ELSE LET db == JournalDatabase(f)
           ld == load_entries(db, now)
       IN IF ld.exc # "none" THEN LoadFailed(db, ld)
          ELSE session(db, populate_body(ld.entries, num_items, gen))

\* entry in results (list membership, by the dataclass's ==)
InList(entry, results) == \E k \in 1..Len(results) : results[k] = entry

\* any(query.lower() in tag.lower() for tag in entry.tags)
AnyTagContains(query, entry) ==
  \E k \in 1..Len(entry.tags) : Contains(lower(query), lower(entry.tags[k]))

\* _entry_matches(query, entry), which cli.py imports from journal.db: the
\* query is found, whatever the case, in the title, in the content or in a tag.
entry_matches(query, entry) ==
  \/ Contains(lower(query), lower(entry.title))
  \/ Contains(lower(query), lower(entry.content))
  \/ AnyTagContains(query, entry)

\* The body of search's session: [exc, stdout, entries, value], value the
\* entries printed, in the order they are printed.
search_body(journal_entries, query, titles_only) ==
  LET InTitle(entry) == Contains(lower(query), lower(entry.title))
      Matches(entry) == entry_matches(query, entry)
      search_results == IF titles_only THEN SelectSeq(journal_entries, InTitle)
                        ELSE SelectSeq(journal_entries, Matches)
  IN IF journal_entries = <<>>
     THEN [exc |-> "Exit", stdout |-> <<"No entries yet in Dev Journal.">>,
           entries |-> journal_entries, value |-> <<>>]
     ELSE IF search_results = <<>>
     THEN [exc |-> "Exit",
           stdout |-> <<IF titles_only
                        THEN "No match for {query} with option --titles-only in journal."
                        ELSE "No match for {query} in journal.">>,
           entries |-> journal_entries, value |-> <<>>]
     ELSE [exc |-> "none", stdout |-> <<>>, entries |-> journal_entries,
           value |-> search_results]

\* search of main.py on the collection it loaded: the entries printed, in order.
main_search(journal_entries, query, titles_only) ==
  LET InTitle(entry) == Contains(lower(query), lower(entry.title))
      title_results == SelectSeq(journal_entries, InTitle)
      InContent(entry) ==
        Contains(lower(query), lower(entry.content)) /\ ~InList(entry, title_results)
      content_results == SelectSeq(journal_entries, InContent)
      InTags(entry) == AnyTagContains(query, entry) /\ ~InList(entry, content_results)
      tags_results == SelectSeq(journal_entries, InTags)
  IN IF titles_only THEN title_results
     ELSE title_results \o content_results \o tags_results

\* sorted(journal_entries, key=lambda entry: int(entry.id), reverse=True)
RECURSIVE sorted_by_id_reverse(_)
sorted_by_id_reverse(journal_entries) ==
  IF journal_entries = <<>> THEN <<>>
  ELSE LET n == Len(journal_entries)
           k == CHOOSE i \in 1..n :
                  /\ \A j \in 1..n : int(journal_entries[j].id) <= int(journal_entries[i].id)
                  /\ \A j \in 1..(i - 1) :
                       int(journal_entries[j].id) < int(journal_entries[i].id)
       IN <<journal_entries[k]>>
          \o sorted_by_id_reverse(SubSeq(journal_entries, 1, k - 1)
                                  \o SubSeq(journal_entries, k + 1, n))

\* The body of display's session: value the rows of the table.
display_body(journal_entries, tags) ==
  LET Tagged(entry) ==
        \E q \in 1..Len(tags) : \E k \in 1..Len(entry.tags) :
          lower(tags[q]) = lower(entry.tags[k])
      rows == sorted_by_id_reverse(journal_entries)
  IN IF journal_entries = <<>>
     THEN [exc |-> "Exit", stdout |-> <<"No entries yet in Dev Journal.">>,
           entries |-> journal_entries, value |-> <<>>]
     ELSE [exc |-> "none", stdout |-> <<>>, entries |-> journal_entries,
           value |-> IF tags # <<>> THEN SelectSeq(rows, Tagged) ELSE rows]

\* [tag for entry in journal_entries for tag in entry.tags]
RECURSIVE AllTags(_)
AllTags(journal_entries) ==
  IF journal_entries = <<>> THEN <<>>
  ELSE Head(journal_entries).tags \o AllTags(Tail(journal_entries))

CountOf(x, seq) == Cardinality({i \in 1..Len(seq) : seq[i] = x})

\* The distinct elements, in the order they are first met.
RECURSIVE Distinct(_)
Distinct(seq) ==
  IF seq = <<>> THEN <<>>
  ELSE LET NotHead(x) == x # Head(seq)
       IN <<Head(seq)>> \o Distinct(SelectSeq(Tail(seq), NotHead))

\* Counter(tags).most_common(): <<[value, count], ...>>, the largest count
\* first, equal counts in the order they were first met.
RECURSIVE MostCommonOf(_, _)
MostCommonOf(values, tags) ==
  IF values = <<>> THEN <<>>
  ELSE LET n == Len(values)
           k == CHOOSE i \in 1..n :
                  /\ \A j \in 1..n : CountOf(values[j], tags) <= CountOf(values[i], tags)
                  /\ \A j \in 1..(i - 1) : CountOf(values[j], tags) < CountOf(values[i], tags)
       IN <<[value |-> values[k], count |-> CountOf(values[k], tags)]>>
          \o MostCommonOf(SubSeq(values, 1, k - 1) \o SubSeq(values, k + 1, n), tags)

RECURSIVE Sum(_)
Sum(seq) == IF seq = <<>> THEN 0 ELSE Head(seq) + Sum(Tail(seq))

\* round(total / n): to the nearest integer, a half to the even one
Round(total, n) ==
  LET q == total \div n
      r == total % n
  IN IF 2 * r < n THEN q
     ELSE IF 2 * r > n THEN q + 1
     ELSE IF q % 2 = 0 THEN q ELSE q + 1

NoStats == [total |-> 0, by_tag |-> <<>>, has_average |-> FALSE, average |-> 0,
            most_common |-> <<>>, higher_freq |-> 0]

\* The body of stats's session: value what is printed (has_average: the
\* average content length and the most common tags are printed).
stats_body(journal_entries) ==
  LET total == Len(journal_entries)
      tags == AllTags(journal_entries)
      contents_length == [i \in 1..total |-> Len(journal_entries[i].content)]
      by_tag == MostCommonOf(Distinct(tags), tags)
      Top(item) == item.count = by_tag[1].count
      most == SelectSeq(by_tag, Top)
  IN IF journal_entries = <<>>
     THEN [exc |-> "Exit", stdout |-> <<"No entries yet in Dev Journal.">>,
           entries |-> journal_entries, value |-> NoStats]
     ELSE [exc |-> "none", stdout |-> <<>>, entries |-> journal_entries,
           value |-> IF by_tag # <<>>
                     THEN [total |-> total, by_tag |-> by_tag, has_average |-> TRUE,
                           average |-> Round(Sum(contents_length), Len(contents_length)),
                           most_common |-> [i \in 1..Len(most) |-> most[i].value],
                           higher_freq |-> by_tag[1].count]
                     ELSE [NoStats EXCEPT !.total = total]]

\* db.session() around the body of a command that prints value: the outcome,
\* and value.
query_cmd(db, ld, b) ==
  IF ld.exc # "none" THEN [out |-> LoadFailed(db, ld), value |-> <<>>]
  ELSE [out |-> session(db, b), value |-> b.value]

search_cmd(f, query, titles_only, now) ==
  LET db == JournalDatabase(f)
      ld == load_entries(db, now)
  IN query_cmd(db, ld, search_body(ld.entries, query, titles_only))

display_cmd(f, tags, now) ==
  LET db == JournalDatabase(f)
      ld == load_entries(db, now)
  IN query_cmd(db, ld, display_body(ld.entries, tags))

stats_cmd(f, now) ==
  LET db == JournalDatabase(f)
      ld == load_entries(db, now)
  IN query_cmd(db, ld, stats_body(ld.entries))

\* ------------------------------------------------------------ inputs
LongTitle == Rep("x", TITLE_LENGTH) \o <<"y">>
LongContent == Rep("z", CONTENT_LENGTH + 1)

Titles == {<<"a">>, <<"A">>, LongTitle}
Contents == {<<"c">>, LongContent}
\* "" and " p,,q "
TagArgs == {<<>>, <<" ", "p", ",", ",", "q", " ">>}
\* what datetime.now(timezone.utc) returns
Nows == {Datetime(1, 5)}
\* the ids the model can assign, one more, and "01"
EntryIds == {str(k) : k \in 1..(IdCap + 1)} \cup {<<"0", "1">>}
NumItems == (0..MaxPopulate) \cup {MAX_ITEMS + 1}
\* what Faker's company(), catch_phrase() and bs() return
Fakes ==
  [title : {<<"a">>, LongTitle}, content : {<<"c">>}, tags : {<<"p", " ", "q">>},
   now : Nows]

\* the last two ids next_entry_id can reach, and ""
CeilingIds == {str(MAX_ID - 1), str(MAX_ID), <<>>}
\* titles and contents given to add when the ids are at the ceiling: "" too
CeilingTitles == {<<"a">>, <<"A">>, <<>>}
CeilingContents == {<<"c">>, <<>>}

\* what search is asked for: found in a title, in a tag, nowhere
Queries == {<<"A">>, <<"P">>, <<"n">>}
\* the --tags of display
DisplayTags == {<<>>, <<<<"P">>>>}

\* ------------------------------------------------------------ state
VARIABLES
  file,      \* the backing file
  op,        \* the last command and its arguments
  before,    \* the backing file when that command began
  result,    \* what it printed, how it ended, its exit code, what it returned
  mem,       \* the collection it held in memory when it ended
  assigned   \* history: the ids of the entries ever persisted

vars == <<file, op, before, result, mem, assigned>>

Op(name, title, content, tags, entry_id, num_items) ==
  [name |-> name, title |-> title, content |-> content, tags |-> tags,
   entry_id |-> entry_id, num_items |-> num_items, query |-> <<>>,
   titles_only |-> FALSE]

QueryOp(name, query, titles_only, tags) ==
  [Op(name, <<>>, <<>>, tags, <<>>, 0) EXCEPT !.query = query,
                                              !.titles_only = titles_only]

ExitCode(exc) == IF exc \in {"none", "Exit"} THEN 0 ELSE 1

Result(stdout, exc, value) ==
  [stdout |-> stdout, exc |-> exc, exit_code |-> ExitCode(exc), value |-> value]

\* The collection a well-formed file holds, as written.
Stored(f) == [i \in 1..Len(f.items) |-> [k \in Fields |-> f.items[i][k]]]

IdsOf(entries) == {entries[i].id : i \in 1..Len(entries)}

\* The largest id a collection holds (0: none).
TopId(entries) ==
  IF entries = <<>> THEN 0 ELSE MaxOf({int(entries[i].id) : i \in 1..Len(entries)})

FinishWith(o, out, value) ==
  /\ file' = out.file
  /\ op' = o
  /\ before' = file
  /\ result' = Result(out.stdout, out.exc, value)
  /\ mem' = out.entries
  /\ assigned' = assigned \cup (IdsOf(out.file.items) \ IdsOf(file.items))

Finish(o, out) == FinishWith(o, out, <<>>)

Init ==
  /\ file = File("empty", <<>>)
  /\ op = Op("none", <<>>, <<>>, <<>>, <<>>, 0)
  /\ before = File("empty", <<>>)
  /\ result = Result(<<>>, "none", <<>>)
  /\ mem = <<>>
  /\ assigned = {}

add(title, content, tags, now) ==
  /\ TopId(file.items) < IdCap
  /\ Finish(Op("add", title, content, tags, <<>>, 0),
            add_cmd(file, title, content, tags, now))

edit(entry_id, new_content, now) ==
  /\ entry_id \in EntryIds \cup CeilingIds
  /\ Finish(Op("edit", <<>>, new_content, <<>>, entry_id, 0),
            edit_cmd(file, entry_id, new_content, now))

delete(entry_id, now) ==
  /\ entry_id \in EntryIds \cup CeilingIds
  /\ Finish(Op("delete", <<>>, <<>>, <<>>, entry_id, 0),
            delete_cmd(file, entry_id, now))

populate(num_items, gen, now) ==
  /\ num_items <= MAX_ITEMS => TopId(file.items) + num_items <= IdCap
  /\ Finish(Op("populate", <<>>, <<>>, <<>>, <<>>, num_items),
            populate_cmd(file, num_items, gen, now))

search(query, titles_only, now) ==
  /\ query \in Queries
  /\ LET r == search_cmd(file, query, titles_only, now)
     IN FinishWith(QueryOp("search", query, titles_only, <<>>), r.out, r.value)

display(tags, now) ==
  /\ tags \in DisplayTags
  /\ LET r == display_cmd(file, tags, now)
     IN FinishWith(QueryOp("display", <<>>, FALSE, tags), r.out, r.value)

stats(now) ==
  /\ now \in Nows
  /\ LET r == stats_cmd(file, now)
     IN FinishWith(QueryOp("stats", <<>>, FALSE, <<>>), r.out, r.value)

Next ==
  \/ \E title \in Titles, content \in Contents, tags \in TagArgs, now \in Nows :
       add(title, content, tags, now)
  \/ \E entry_id \in EntryIds, new_content \in Contents, now \in Nows :
       edit(entry_id, new_content, now)
  \/ \E entry_id \in EntryIds, now \in Nows : delete(entry_id, now)
  \/ \E num_items \in NumItems, now \in Nows :
       \E gen \in [1..(IF num_items <= MaxPopulate THEN num_items ELSE 0) -> Fakes] :
         populate(num_items, gen, now)
  \/ \E query \in Queries, titles_only \in BOOLEAN, now \in Nows :
       search(query, titles_only, now)
  \/ \E tags \in DisplayTags, now \in Nows : display(tags, now)
  \/ \E now \in Nows : stats(now)

Spec == Init /\ [][Next]_vars

\* ------------------------------------------------------------ next_entry_id alone
\* next_entry_id applied to any collection a file can hold: ids that int()
\* parses, in any order, padded or not, up to and past MAX_ID.
IdSamples ==
  {<<"1">>, <<"2">>, <<"9">>, <<"0", "0", "7">>, str(MAX_ID - 1), str(MAX_ID),
   str(MAX_ID + 1)}

EntryWithId(id) ==
  JournalEntry(id, <<"t">>, <<"c">>, isoformat(Datetime(1, 5)), <<>>)

Collections ==
  UNION {[1..n -> {EntryWithId(id) : id \in IdSamples}] : n \in 0..MaxLen}

InitNextId ==
  /\ file = File("empty", <<>>)
  /\ op = Op("none", <<>>, <<>>, <<>>, <<>>, 0)
  /\ before = File("empty", <<>>)
  /\ result = Result(<<>>, "none", <<>>)
  /\ mem \in Collections
  /\ assigned = {}

call_next_entry_id ==
  /\ op.name = "none"
  /\ LET r == next_entry_id(mem)
     IN result' = Result(<<>>, r.exc, r.id)
  /\ op' = Op("next_entry_id", <<>>, <<>>, <<>>, <<>>, 0)
  /\ UNCHANGED <<file, before, mem, assigned>>

SpecNextId == InitNextId /\ [][call_next_entry_id]_vars

\* ------------------------------------------------------------ load_entries alone
\* A database opened on any backing file (no file, no bytes, bytes that are no
\* JSON, a JSON document that is no array, arrays of well-formed and malformed
\* records) and load_entries applied to it.
GoodRecord(id, content) ==
  asdict(JournalEntry(id, <<"t">>, content, isoformat(Datetime(1, 5)), <<"p">>))

RecordSamples ==
  {GoodRecord(<<"1">>, <<"c">>),
   GoodRecord(<<"2">>, LongContent),
   [GoodRecord(<<"3">>, <<"c">>) EXCEPT !.keys = Fields \ {"tags"}],
   [GoodRecord(<<"4">>, <<"c">>) EXCEPT !.keys = Fields \ {"timestamp"}],
   [GoodRecord(<<"5">>, <<"c">>) EXCEPT !.keys = Fields \ {"title"}],
   [GoodRecord(<<"6">>, <<"c">>) EXCEPT !.keys = Fields \cup {"mood"}],
   [GoodRecord(<<"7">>, <<"c">>) EXCEPT !.obj = FALSE, !.keys = {}]}

FileSamples ==
  {File(k, <<>>) : k \in {"absent", "empty", "invalid", "null", "number", "string",
                          "empty_string", "object", "empty_object"}}
  \cup {File("array", items) : items \in UNION {[1..n -> RecordSamples] : n \in 0..MaxLen}}

InitLoad ==
  /\ file \in FileSamples
  /\ op = Op("none", <<>>, <<>>, <<>>, <<>>, 0)
  /\ before = file
  /\ result = Result(<<>>, "none", <<>>)
  /\ mem = <<>>
  /\ assigned = {}

\* db = JournalDatabase(file)
new_JournalDatabase ==
  /\ op.name = "none"
  /\ file' = JournalDatabase(file)
  /\ op' = Op("JournalDatabase", <<>>, <<>>, <<>>, <<>>, 0)
  /\ UNCHANGED <<before, result, mem, assigned>>

\* db.load_entries()
call_load_entries(now) ==
  /\ op.name = "JournalDatabase"
  /\ LET ld == load_entries(file, now)
     IN /\ result' = Result(<<>>, ld.exc, <<>>)
        /\ mem' = ld.entries
  /\ op' = Op("load_entries", <<>>, <<>>, <<>>, <<>>, 0)
  /\ UNCHANGED <<file, before, assigned>>

NextLoad ==
  \/ new_JournalDatabase
  \/ \E now \in Nows : call_load_entries(now)

SpecLoad == InitLoad /\ [][NextLoad]_vars

\* ------------------------------------------------------------ ids at the ceiling
\* The commands on a store whose largest id is MAX_ID - 1 or MAX_ID: what
\* MAX_ID - 1 successful adds, and deletes, make of the empty store.
InitCeiling ==
  /\ file = save(<<JournalEntry(str(MAX_ID - 1), <<"t">>, <<"c">>,
                                isoformat(Datetime(1, 5)), <<>>)>>)
  /\ op = Op("none", <<>>, <<>>, <<>>, <<>>, 0)
  /\ before = file
  /\ result = Result(<<>>, "none", <<>>)
  /\ mem = <<>>
  /\ assigned = {str(MAX_ID - 1)}

add_at_ceiling(title, content, tags, now) ==
  /\ TopId(file.items) >= MAX_ID - 1
  /\ Finish(Op("add", title, content, tags, <<>>, 0),
            add_cmd(file, title, content, tags, now))

populate_at_ceiling(num_items, gen, now) ==
  /\ TopId(file.items) >= MAX_ID - 1
  /\ Finish(Op("populate", <<>>, <<>>, <<>>, <<>>, num_items),
            populate_cmd(file, num_items, gen, now))

NextCeiling ==
  \/ \E title \in CeilingTitles, content \in CeilingContents, now \in Nows :
       add_at_ceiling(title, content, <<>>, now)
  \/ \E gen \in [1..1 -> Fakes], now \in Nows : populate_at_ceiling(1, gen, now)
  \/ \E entry_id \in CeilingIds, new_content \in CeilingContents, now \in Nows :
       edit(entry_id, new_content, now)
  \/ \E entry_id \in CeilingIds, now \in Nows : delete(entry_id, now)

SpecCeiling == InitCeiling /\ [][NextCeiling]_vars

\* ------------------------------------------------------------ search alone
\* The two searches applied to any collection of entries, each with the query
\* in its title, its content, a tag, several of them or none, under their ids
\* 1, 2, ... in the order of the collection.
SearchTitles == {<<"t">>, <<"Q", "t">>}
SearchContents == {<<"c">>, <<"c", "q">>}
SearchTags == {<<>>, <<<<"p">>, <<"q", "p">>>>}
SearchQueries == {<<"q">>, <<"Q">>}

SearchShapes == [title : SearchTitles, content : SearchContents, tags : SearchTags]

SearchCollections ==
  UNION {{[i \in 1..n |-> JournalEntry(str(i), shapes[i].title, shapes[i].content,
                                       isoformat(Datetime(1, 5)), shapes[i].tags)] :
            shapes \in [1..n -> SearchShapes]} : n \in 0..MaxLen}

InitSearch ==
  /\ file = File("empty", <<>>)
  /\ op \in {QueryOp("none", query, titles_only, <<>>) :
              query \in SearchQueries, titles_only \in BOOLEAN}
  /\ before = File("empty", <<>>)
  /\ result = Result(<<>>, "none", <<>>)
  /\ mem \in SearchCollections
  /\ assigned = {}

\* the session body of search (journal/cli.py) on the collection
call_search ==
  /\ op.name = "none"
  /\ LET b == search_body(mem, op.query, op.titles_only)
     IN result' = Result(b.stdout, b.exc, b.value)
  /\ op' = [op EXCEPT !.name = "search"]
  /\ UNCHANGED <<file, before, mem, assigned>>

\* search of main.py on the collection
call_main_search ==
  /\ op.name = "none"
  /\ result' = Result(<<>>, "none", main_search(mem, op.query, op.titles_only))
  /\ op' = [op EXCEPT !.name = "main_search"]
  /\ UNCHANGED <<file, before, mem, assigned>>

NextSearch == call_search \/ call_main_search

SpecSearch == InitSearch /\ [][NextSearch]_vars

\* ------------------------------------------------------------ properties
Saved == op.name \in {"add", "edit", "delete", "populate"} /\ result.exc = "none"

\* C1: in every state reachable from the empty store, no two entries of the
\* persisted collection have the same id.
C1_UniqueIds ==
  \A i, j \in 1..Len(file.items) :
    i # j => file.items[i].id # file.items[j].id

\* An add that left a second entry in the store.
C1_Witness ==
  /\ op.name = "add" /\ result.exc = "none"
  /\ Len(before.items) = 1
  /\ Len(file.items) = 2

\* C2: an id that was once assigned to a persisted entry is never the id of an
\* entry created by a later command.
C2_IdsNeverReused ==
  [][(IdsOf(file'.items) \ IdsOf(file.items)) \cap assigned = {}]_vars

\* C3 (as amended): for a collection whose ids are all below MAX_ID,
\* next_entry_id returns an id numerically greater than every existing id, and
\* FIRST_ID for the empty collection; when an id is MAX_ID or more it raises
\* MaximumNumberOfEntries.
C3_NextIdGreaterBelowCeiling ==
  op.name = "next_entry_id" =>
    IF mem = <<>> THEN result.exc = "none" /\ result.value = FIRST_ID
    ELSE IF \A i \in 1..Len(mem) : int(mem[i].id) < MAX_ID
    THEN /\ result.exc = "none"
         /\ IsDigits(result.value)
         /\ \A i \in 1..Len(mem) : int(result.value) > int(mem[i].id)
    ELSE result.exc = "MaximumNumberOfEntries"

\* next_entry_id returned for a collection whose largest id is not its last.
C3_Witness ==
  /\ op.name = "next_entry_id" /\ result.exc = "none"
  /\ Len(mem) = 2
  /\ int(mem[1].id) > int(mem[2].id)

\* C3 (as claimed): for every collection, next_entry_id returns an id greater
\* than every existing id, and FIRST_ID for the empty collection.
C3_NextIdGreater ==
  op.name = "next_entry_id" =>
    /\ result.exc = "none"
    /\ mem = <<>> => result.value = FIRST_ID
    /\ \A i \in 1..Len(mem) : int(result.value) > int(mem[i].id)

\* C4: add with a title equal, case-insensitively, to the title of an entry
\* of the store ends with the duplicate-title message and exit code 0, leaves
\* the collection in memory as it was loaded and the file as it was.
C4_DuplicateTitleRejected ==
  (op.name = "add"
   /\ \E i \in 1..Len(before.items) :
        lower(before.items[i].title) = lower(op.title))
  => /\ result.stdout = <<"An entry with this title already exists.">>
     /\ result.exc = "Exit"
     /\ result.exit_code = 0
     /\ \A now \in Nows : mem = load_entries(before, now).entries
     /\ file = before

\* An add whose title differs from an existing one only by case.
C4_Witness ==
  /\ op.name = "add"
  /\ \E i \in 1..Len(before.items) :
       /\ lower(before.items[i].title) = lower(op.title)
       /\ before.items[i].title # op.title
  /\ result.exc = "Exit"

\* The first position of the collection that holds entry_id.
At(entries, entry_id) ==
  CHOOSE k \in 1..Len(entries) :
    entries[k].id = entry_id /\ \A j \in 1..(k - 1) : entries[j].id # entry_id

Without(entries, k) == SubSeq(entries, 1, k - 1) \o SubSeq(entries, k + 1, Len(entries))

\* What a successful add(title, content, tags) makes of the collection prev.
AddedTo(prev, cur) ==
  LET n == Len(prev)
  IN /\ Len(cur) = n + 1
     /\ SubSeq(cur, 1, n) = prev
     /\ cur[n + 1].title = Prefix(op.title, TITLE_LENGTH)
     /\ cur[n + 1].content = Prefix(op.content, CONTENT_LENGTH)
     /\ cur[n + 1].tags = ParseTags(op.tags, ",")
     /\ cur[n + 1].id = (IF n = 0 THEN FIRST_ID ELSE next_entry_id(prev).id)

\* C5: after a successful add the persisted collection is the previous
\* persisted collection, unchanged and in the same order, followed by one new
\* entry with the given title and content (truncated to the limits), the
\* parsed tags and the id next_entry_id gives for the previous collection.
C5_AddAppends ==
  (op.name = "add" /\ result.exc = "none") => AddedTo(Stored(before), Stored(file))

\* The same with the collection load_entries reads from the previous file in
\* place of the records the file holds: this one holds.
C5_AddAppendsToLoaded ==
  (op.name = "add" /\ result.exc = "none") =>
    \A now \in Nows : AddedTo(load_entries(before, now).entries, Stored(file))

\* C6: delete, and edit, with an id that no entry of the collection has leaves
\* the persisted collection unchanged, prints "No entry was found with this
\* ID" and ends with exit code 0.
C6_AbsentIdNoChange ==
  (op.name \in {"delete", "edit"} /\ op.entry_id \notin IdsOf(before.items))
  => /\ Stored(file) = Stored(before)
     /\ result.stdout = <<"No entry was found with this ID">>
     /\ result.exit_code = 0

\* A delete of an id that no entry has, on a store that holds an entry whose
\* content is longer than CONTENT_LENGTH.
C6_Witness ==
  /\ op.name = "delete"
  /\ op.entry_id \notin IdsOf(before.items)
  /\ \E i \in 1..Len(before.items) : Len(before.items[i].content) > CONTENT_LENGTH

\* C7: delete with an id present in the collection removes the first entry
\* with that id and leaves every other entry unchanged and in the same order
\* in the persisted collection.
C7_DeleteRemovesFirstMatch ==
  (op.name = "delete" /\ op.entry_id \in IdsOf(before.items))
  => Stored(file) = Without(Stored(before), At(Stored(before), op.entry_id))

\* The same with the collection load_entries reads from the previous file:
\* this one holds.
C7_DeleteFromLoaded ==
  (op.name = "delete" /\ op.entry_id \in IdsOf(before.items))
  => \A now \in Nows :
       LET prev == load_entries(before, now).entries
       IN Stored(file) = Without(prev, At(prev, op.entry_id))

OnlyContentChanged(prev, cur) ==
  LET k == At(prev, op.entry_id)
  IN /\ Len(cur) = Len(prev)
     /\ \A i \in 1..Len(prev) : i # k => cur[i] = prev[i]
     /\ cur[k] = [prev[k] EXCEPT !.content = cur[k].content]

\* C8: edit with an id present in the collection changes only the content of
\* the entry with that id: its id, title, tags and timestamp, every other
\* entry, and the number and order of entries are unchanged in the persisted
\* collection.
C8_EditChangesOnlyContent ==
  (op.name = "edit" /\ op.entry_id \in IdsOf(before.items))
  => OnlyContentChanged(Stored(before), Stored(file))

\* The same with the collection load_entries reads from the previous file,
\* and the content that was typed: this one holds.
C8_EditOfLoaded ==
  (op.name = "edit" /\ op.entry_id \in IdsOf(before.items))
  => \A now \in Nows :
       LET prev == load_entries(before, now).entries
       IN /\ OnlyContentChanged(prev, Stored(file))
          /\ Stored(file)[At(prev, op.entry_id)].content = op.content

\* C9: for every collection that add, populate, edit and delete produce,
\* save followed by load_entries yields the saved collection.
C9_RoundTrip ==
  Saved => \A now \in Nows :
             load_entries(save(mem), now) = [exc |-> "none", entries |-> mem]

\* The round trip holds of the collections whose contents are within
\* CONTENT_LENGTH.
C9_RoundTripWithinLimits ==
  (Saved /\ \A i \in 1..Len(mem) : Len(mem[i].content) <= CONTENT_LENGTH)
  => \A now \in Nows :
       load_entries(save(mem), now) = [exc |-> "none", entries |-> mem]

WellFormed(f) ==
  /\ f.kind = "array"
  /\ \A i \in 1..Len(f.items) : f.items[i].obj /\ f.items[i].keys = Fields

\* C10: load_entries never fails the caller, and returns the empty collection
\* when the file the database was opened on is absent, empty, no JSON, no JSON
\* array, or an array with a record that has a missing or an unknown field.
C10_LoadNeverFails ==
  op.name = "load_entries" =>
    /\ result.exc = "none"
    /\ ~WellFormed(before) => mem = <<>>

\* What load_entries does: no file (the constructor creates it), no bytes, no
\* JSON, {} and "" give the empty collection; another document that is no
\* array, and an array with a record that is no object, has an unknown key or
\* lacks id, title or content, raise TypeError; a record that lacks only
\* timestamp or tags is loaded with the default.
C10_LoadOutcomes ==
  op.name = "load_entries" =>
    /\ before.kind \in {"absent", "empty", "invalid", "empty_object", "empty_string"}
         => result.exc = "none" /\ mem = <<>>
    /\ before.kind \in {"null", "number", "string", "object"} => result.exc = "TypeError"
    /\ before.kind = "array" =>
         IF \E i \in 1..Len(before.items) : BadRecord(before.items[i])
         THEN result.exc = "TypeError"
         ELSE result.exc = "none" /\ Len(mem) = Len(before.items)

\* C11: populate(n) with 0 <= n <= MAX_ITEMS ends with exactly n new entries
\* persisted in the store, the entries that were there kept: a candidate whose
\* title collides with an existing title is skipped and another one generated,
\* and the entries already added in the run are kept.
C11_PopulateAddsN ==
  (op.name = "populate" /\ op.num_items <= MAX_ITEMS)
  => /\ Len(file.items) = Len(before.items) + op.num_items
     /\ IdsOf(before.items) \subseteq IdsOf(file.items)

\* What populate does: when no candidate collides, n entries are added; at the
\* first candidate whose title an entry of the collection has (of the store,
\* or added in this run), create prints the duplicate-title message and raises
\* typer.Exit, the session does not save, and the file is as it was.
C11_PopulateOutcome ==
  (op.name = "populate" /\ op.num_items <= MAX_ITEMS)
  => \/ /\ result.exc = "none"
        /\ Len(file.items) = Len(before.items) + op.num_items
     \/ /\ result.exc = "Exit"
        /\ result.stdout[Len(result.stdout)] = "An entry with this title already exists."
        /\ Len(mem) < Len(before.items) + op.num_items
        /\ file = before

\* C12: populate(n) with n > MAX_ITEMS prints the ceiling message, ends with
\* exit code 0 and leaves the backing file as it was.
C12_PopulateCeiling ==
  (op.name = "populate" /\ op.num_items > MAX_ITEMS)
  => /\ result.stdout = <<"Please, choose a number of items not greater than MAX_ITEMS.">>
     /\ result.exc = "Exit"
     /\ result.exit_code = 0
     /\ file = before

\* populate(MAX_ITEMS + 1) on a store that holds an entry.
C12_Witness ==
  /\ op.name = "populate"
  /\ op.num_items = MAX_ITEMS + 1
  /\ Len(before.items) > 0

\* The places of results where entry is.
Places(entry, results) == {k \in 1..Len(results) : results[k] = entry}

TitleMatch(entry) == Contains(lower(op.query), lower(entry.title))
ContentMatch(entry) == Contains(lower(op.query), lower(entry.content))
TagMatch(entry) == AnyTagContains(op.query, entry)

\* C13: search without --titles-only prints every entry at most once, and an
\* entry whose title matches the query and whose content or a tag matches too
\* exactly once, among the title matches that open the result.
C13_SearchNoDuplicates ==
  (op.name \in {"search", "main_search"} /\ ~op.titles_only /\ result.exc = "none")
  => \A i \in 1..Len(mem) :
       /\ Cardinality(Places(mem[i], result.value)) <= 1
       /\ (TitleMatch(mem[i]) /\ (ContentMatch(mem[i]) \/ TagMatch(mem[i])))
          => /\ Cardinality(Places(mem[i], result.value)) = 1
             /\ \A k \in Places(mem[i], result.value) :
                  \A j \in 1..k : TitleMatch(result.value[j])

\* What the two searches do: search (journal/cli.py) prints every matching
\* entry once; search of main.py prints twice the entries that match in the
\* title and in a tag (the tag matches leave out the content matches only),
\* and every other matching entry once.
C13_SearchOutcomes ==
  (op.name \in {"search", "main_search"} /\ ~op.titles_only /\ result.exc = "none")
  => \A i \in 1..Len(mem) :
       Cardinality(Places(mem[i], result.value)) =
         IF op.name = "main_search" /\ TitleMatch(mem[i]) /\ TagMatch(mem[i]) THEN 2
         ELSE IF TitleMatch(mem[i]) \/ ContentMatch(mem[i]) \/ TagMatch(mem[i]) THEN 1
         ELSE 0

\* The place of an entry in the collection (ids are distinct).
PlaceIn(entries, entry) == CHOOSE i \in 1..Len(entries) : entries[i] = entry

\* part holds entries of the collection in the order of the collection.
InCollectionOrder(entries, part) ==
  \A i, j \in 1..Len(part) :
    i < j => PlaceIn(entries, part[i]) < PlaceIn(entries, part[j])

\* results is the title matches of the collection, then content matches,
\* then tag matches, each tier in the order of the collection.
OrderedByTier(entries, results) ==
  \E a, b \in 0..Len(results) :
    /\ a <= b
    /\ SubSeq(results, 1, a) = SelectSeq(entries, TitleMatch)
    /\ \A k \in (a + 1)..b : ContentMatch(results[k])
    /\ InCollectionOrder(entries, SubSeq(results, a + 1, b))
    /\ \A k \in (b + 1)..Len(results) : TagMatch(results[k])
    /\ InCollectionOrder(entries, SubSeq(results, b + 1, Len(results)))

\* C14: what search without --titles-only prints is ordered by tier: all the
\* title matches first, then the content matches, then the tag matches, and
\* within each tier the entries are in the order of the collection.
C14_SearchOrderedByTier ==
  (op.name \in {"search", "main_search"} /\ ~op.titles_only /\ result.exc = "none")
  => OrderedByTier(mem, result.value)

\* search of main.py orders what it prints by tier.
C14_MainSearchOrdered ==
  (op.name = "main_search" /\ ~op.titles_only) => OrderedByTier(mem, result.value)

\* search of journal/cli.py prints the matching entries in the order of the
\* collection, whatever the tier.
C14_SearchInCollectionOrder ==
  (op.name = "search" /\ ~op.titles_only /\ result.exc = "none")
  => LET Matches(entry) == TitleMatch(entry) \/ ContentMatch(entry) \/ TagMatch(entry)
     IN result.value = SelectSeq(mem, Matches)

Commands == {"add", "edit", "delete", "populate", "search", "display", "stats"}

\* C15: no command ends with an unhandled exception: a duplicate title, an id
\* that no entry has, the largest id being MAX_ID already, an empty title,
\* content or id all end the command with exit code 0, and the first three
\* with a message.  In particular add on a store whose largest id is MAX_ID
\* prints a message and ends with exit code 0.
C15_NoUnhandledFault ==
  op.name \in Commands
  => /\ result.exc \in {"none", "Exit"}
     /\ result.exit_code = 0
     /\ result.exc = "Exit" => result.stdout # <<>>
     /\ (op.name = "add" /\ TopId(before.items) >= MAX_ID) => result.stdout # <<>>

\* What the commands do at the ceiling: add and populate(1) on a store whose
\* largest id is MAX_ID, with a title no entry has, end with
\* MaximumNumberOfEntries unhandled (exit code 1), nothing printed and the file
\* as it was; every other command ends with exit code 0; add with the title
\* "" or the content "", when no entry has the title, saves an entry.
C15_CeilingOutcomes ==
  op.name \in Commands
  => /\ IF /\ TopId(before.items) >= MAX_ID
           /\ \/ op.name = "add" /\ ~TitleTaken(op.title, Stored(before))
              \/ op.name = "populate" /\ Len(mem) = Len(before.items)
                 /\ result.exc # "Exit"
        THEN /\ result.exc = "MaximumNumberOfEntries"
             /\ result.exit_code = 1
             /\ result.stdout = <<>>
             /\ file = before
        ELSE result.exit_code = 0
     /\ (/\ op.name = "add" /\ (op.title = <<>> \/ op.content = <<>>)
         /\ TopId(before.items) < MAX_ID /\ ~TitleTaken(op.title, Stored(before)))
        => result.stdout = <<"Entry saved.">> /\ Len(file.items) = Len(before.items) + 1

\* The average content length of a collection, as round() prints it.
AverageContentLength(entries) ==
  Round(Sum([i \in 1..Len(entries) |-> Len(entries[i].content)]), Len(entries))

\* C16: for every non-empty collection, whatever tags its entries have, stats
\* prints the number of entries and the average content length of the
\* entries.
C16_StatsTotalAndAverage ==
  (op.name = "stats" /\ mem # <<>>)
  => /\ result.value.total = Len(mem)
     /\ result.value.has_average
     /\ result.value.average = AverageContentLength(mem)

\* What stats does: it prints the number of entries; it prints the average
\* content length when some entry has a tag, and no average when none has.
C16_StatsOutcomes ==
  (op.name = "stats" /\ mem # <<>>)
  => /\ result.value.total = Len(mem)
     /\ IF \E i \in 1..Len(mem) : mem[i].tags # <<>>
        THEN /\ result.value.has_average
             /\ result.value.average = AverageContentLength(mem)
        ELSE ~result.value.has_average

\* The command ran the body of its session (load_entries did not fail, and
\* populate was within MAX_ITEMS).
InSession ==
  /\ op.name \in Commands
  /\ op.name = "populate" => op.num_items <= MAX_ITEMS
  /\ result.exc \notin {"FileNotFoundError", "TypeError"}

\* C17: a session ends with save() on every exit path: however the body ends,
\* by returning, by typer.Exit or by a failure, the backing file holds the
\* collection the body held when it ended.
C17_SessionAlwaysSaves ==
  InSession => Stored(file) = mem

\* What session does: when the body returns, the file holds the collection
\* the body held; when the body raises, the file is as it was.
C17_SessionOutcomes ==
  InSession => IF result.exc = "none" THEN Stored(file) = mem ELSE file = before

\* C18: in every state reachable from the empty store, no two entries of the
\* persisted collection have titles that are equal case-insensitively, titles
\* longer than TITLE_LENGTH included.
C18_UniqueTitles ==
  \A i, j \in 1..Len(file.items) :
    i # j => lower(file.items[i].title) # lower(file.items[j].title)

\* Two entries of the store have the same title, whatever the case, only when
\* the title is TITLE_LENGTH long: what is left of a longer title.
C18_UniqueShortTitles ==
  \A i, j \in 1..Len(file.items) :
    (i # j /\ lower(file.items[i].title) = lower(file.items[j].title))
    => Len(file.items[i].title) = TITLE_LENGTH

ReadOnly == op.name \in {"display", "search", "stats"}

\* C19: display, search and stats leave the persisted collection unchanged:
\* the entries (ids, titles, contents, tags, timestamps, order) the backing
\* file holds after the command are those it held before.
C19_ReadOnlyKeepsStore ==
  ReadOnly => Stored(file) = Stored(before)

\* What they do: they run in a session, so that when the body returns the
\* file is rewritten with the collection load_entries read, the contents
\* longer than CONTENT_LENGTH cut; when the body raises typer.Exit (no entry,
\* no match) the file is as it was.  The entries read from the file after the
\* command are those read from it before.
C19_ReadOnlyKeepsLoaded ==
  ReadOnly => \A now \in Nows :
                /\ load_entries(JournalDatabase(file), now)
                   = load_entries(JournalDatabase(before), now)
                /\ IF result.exc = "none"
                   THEN file = save(load_entries(before, now).entries)
                   ELSE file = before

====
